---- MODULE Spec2Model ----
(***************************************************************************)
(* A model of the semantic-version parser, validator, comparator and       *)
(* renderer of anttikivi/semver (src/semver.go, src/validation.go).        *)
(*                                                                         *)
(* Strings are sequences of bytes (0..255), as Go indexes them.  A uint64  *)
(* is three limbs <<h, m, l>> of base 10^7 (value h*10^14 + m*10^7 + l),   *)
(* so that 2^64-1 and the values just above it are represented exactly.    *)
(* A nil pointer or interface is Nil; a slice is a record that keeps the   *)
(* difference between a nil slice and an empty non-nil slice.              *)
(***************************************************************************)
EXTENDS Integers, Sequences, FiniteSets, TLC

VARIABLES s, v, w, calls, ret

vars == <<s, v, w, calls, ret>>

(***************************************************************************)
(* Bytes and strings                                                       *)
(***************************************************************************)

\* The byte of a one-character literal.
Byte(ch) ==
    CASE ch = "0" -> 48 [] ch = "1" -> 49 [] ch = "2" -> 50 [] ch = "3" -> 51
      [] ch = "4" -> 52 [] ch = "5" -> 53 [] ch = "6" -> 54 [] ch = "7" -> 55
      [] ch = "8" -> 56 [] ch = "9" -> 57
      [] ch = "." -> 46 [] ch = "-" -> 45 [] ch = "+" -> 43 [] ch = "_" -> 95
      [] ch = "v" -> 118 [] ch = "V" -> 86
      [] ch = "a" -> 97 [] ch = "b" -> 98 [] ch = "x" -> 120 [] ch = "y" -> 121
      [] ch = "A" -> 65 [] ch = "B" -> 66
      [] ch = "c" -> 99 [] ch = "d" -> 100 [] ch = "e" -> 101
      [] ch = "h" -> 104 [] ch = "i" -> 105 [] ch = "l" -> 108
      [] ch = "p" -> 112 [] ch = "r" -> 114 [] ch = "t" -> 116
      [] ch = "u" -> 117
      [] ch = "0xC8" -> 200      \* a byte above unicode.MaxASCII

\* The Go string written as a tuple of one-character literals.
Str(t) == [i \in 1..Len(t) |-> Byte(t[i])]

\* s[i:j] with Go's zero-based half-open bounds.
Slice(str, i, j) == SubSeq(str, i + 1, j)

\* s[i] with Go's zero-based index.
At(str, i) == str[i + 1]

RECURSIVE IndexByteFrom(_, _, _)
\* The least index >= i of byte c in str, or -1.
IndexByteFrom(str, c, i) ==
    IF i >= Len(str) THEN -1
    ELSE IF At(str, i) = c THEN i
    ELSE IndexByteFrom(str, c, i + 1)

RECURSIVE Split(_, _)
\* strings.Split(str, sep) for a one-byte separator: never empty, Split("") = [""].
Split(str, sep) ==
    LET k == IndexByteFrom(str, sep, 0) IN
    IF k = -1 THEN <<str>>
    ELSE <<Slice(str, 0, k)>> \o Split(Slice(str, k + 1, Len(str)), sep)

RECURSIVE Join(_, _)
\* The elements of parts written one after another with sep between them.
Join(parts, sep) ==
    IF Len(parts) = 0 THEN <<>>
    ELSE IF Len(parts) = 1 THEN parts[1]
    ELSE parts[1] \o <<sep>> \o Join(Tail(parts), sep)

\* cmp.Compare on two ordered integers.
cmpInt(x, y) == IF x < y THEN -1 ELSE IF x > y THEN 1 ELSE 0

RECURSIVE cmpString(_, _)
\* cmp.Compare on two strings: byte-lexicographic, a proper prefix is less.
cmpString(x, y) ==
    IF Len(x) = 0 \/ Len(y) = 0 THEN cmpInt(Len(x), Len(y))
    ELSE IF x[1] # y[1] THEN cmpInt(x[1], y[1])
    ELSE cmpString(Tail(x), Tail(y))

(***************************************************************************)
(* uint64                                                                  *)
(***************************************************************************)

LimbBase == 10 ^ 7

Zero64 == <<0, 0, 0>>

\* math.MaxUint64 = 18446744073709551615
MaxUint64 == <<184467, 4407370, 9551615>>

\* cmp.Compare on two uint64 values.
cmpUint64(x, y) ==
    IF x[1] # y[1] THEN cmpInt(x[1], y[1])
    ELSE IF x[2] # y[2] THEN cmpInt(x[2], y[2])
    ELSE cmpInt(x[3], y[3])

\* n*10 + d, not reduced modulo 2^64 (the top limb is unbounded).
MulAdd10(n, d) ==
    LET l1 == n[3] * 10 + d
        m1 == n[2] * 10 + (l1 \div LimbBase)
        h1 == n[1] * 10 + (m1 \div LimbBase)
    IN <<h1, m1 % LimbBase, l1 % LimbBase>>

RECURSIVE ParseUintFrom(_, _, _)
ParseUintFrom(str, i, n) ==
    IF i >= Len(str) THEN [u |-> n, err |-> "nil"]
    ELSE IF At(str, i) < 48 \/ At(str, i) > 57
    THEN [u |-> Zero64, err |-> "ErrSyntax"]
    ELSE LET n1 == MulAdd10(n, At(str, i) - 48) IN
         IF cmpUint64(n1, MaxUint64) > 0
         THEN [u |-> MaxUint64, err |-> "ErrRange"]
         ELSE ParseUintFrom(str, i + 1, n1)

\* Faulty variant of strconv.ParseUint: a value that does not fit 64 bits is
\* returned as the largest uint64 without an error (C14 fails with it).
ParseUint_saturating(str) ==
    IF Len(str) = 0 THEN [u |-> Zero64, err |-> "ErrSyntax"]
    ELSE LET r == ParseUintFrom(str, 0, Zero64) IN
         [u |-> r.u, err |-> IF r.err = "ErrRange" THEN "nil" ELSE r.err]

\* strconv.ParseUint(str, 10, 64): the value, or ErrSyntax, or ErrRange when the
\* value does not fit 64 bits.
ParseUint(str) ==
    IF Len(str) = 0 THEN [u |-> Zero64, err |-> "ErrSyntax"]
    ELSE ParseUintFrom(str, 0, Zero64)

RECURSIVE Digits(_)
\* The decimal digits of a natural number, most significant first.
Digits(k) ==
    IF k < 10 THEN <<48 + k>>
    ELSE Digits(k \div 10) \o <<48 + (k % 10)>>

\* The digits of a limb padded with zeros to the limb's width.
PadLimb(k) ==
    LET d == Digits(k) IN [i \in 1..(7 - Len(d)) |-> 48] \o d

\* Faulty variant of strconv.FormatUint: the lower limbs are written without
\* their leading zeros (C21 fails with it).
FormatUint_unpadded(u) ==
    IF u[1] > 0 THEN Digits(u[1]) \o Digits(u[2]) \o Digits(u[3])
    ELSE IF u[2] > 0 THEN Digits(u[2]) \o Digits(u[3])
    ELSE Digits(u[3])

\* strconv.FormatUint(u, 10), also what fmt's %d writes for a uint64.
FormatUint(u) ==
    IF u[1] > 0 THEN Digits(u[1]) \o PadLimb(u[2]) \o PadLimb(u[3])
    ELSE IF u[2] > 0 THEN Digits(u[2]) \o PadLimb(u[3])
    ELSE Digits(u[3])

(***************************************************************************)
(* Values                                                                  *)
(***************************************************************************)

\* The nil pointer, nil interface and nil error value.
Nil == [nil |-> TRUE]

\* A nil slice and a non-nil slice with the given elements.
NilSlice == [isNil |-> TRUE, elems |-> <<>>]

MakeSlice(elems) == [isNil |-> FALSE, elems |-> elems]

len(sl) == Len(sl.elems)

numericIdentifier(u) == [type |-> "numericIdentifier", v |-> u]

alphanumericIdentifier(str) == [type |-> "alphanumericIdentifier", v |-> str]

(***************************************************************************)
(* Character classes (semver.go)                                           *)
(***************************************************************************)

isDigit(c) == 48 <= c /\ c <= 57

isIdentifierCharacter(c) ==
    \/ (48 <= c /\ c <= 57)
    \/ (65 <= c /\ c <= 90)
    \/ (97 <= c /\ c <= 122)
    \/ c = 45

isAlphanumericIdentifier(str) ==
    \A i \in 1..Len(str) : isIdentifierCharacter(str[i])

\* unicode.MaxASCII is 0x7F.
isASCII(str) == \A i \in 1..Len(str) : ~(str[i] > 127)

isNumericIdentifier(str) == \A i \in 1..Len(str) : isDigit(str[i])

(***************************************************************************)
(* The parser (semver.go)                                                  *)
(***************************************************************************)

\* What parse returns: a non-nil *Version with a nil error, or nil with an error.
\* An error is named by the sentinel that errors.Is finds in its chain.
Ok(ver) == [v |-> ver, err |-> "nil"]

Fail(e) == [v |-> Nil, err |-> e]

\* Faulty variant of stripPrefix: a 'V' is skipped like a 'v' (C19 fails with
\* it).
stripPrefix_anyCase(str) ==
    LET c == At(str, 0)
        pos == IF c = 118 \/ c = 86 THEN 1 ELSE 0
    IN IF ~isDigit(c) /\ c # 118 /\ c # 86
       THEN [pos |-> 0, err |-> "ErrInvalidVersion"]
       ELSE IF pos = Len(str) THEN [pos |-> pos, err |-> "ErrInvalidVersion"]
       ELSE [pos |-> pos, err |-> "nil"]

\* stripPrefix: the position after an optional 'v'.  The caller has checked
\* that str is not empty.
stripPrefix(str) ==
    LET c == At(str, 0)
        pos == IF c = 118 THEN 1 ELSE 0
    IN IF ~isDigit(c) /\ c # 118 THEN [pos |-> 0, err |-> "ErrInvalidVersion"]
       ELSE IF pos = Len(str) THEN [pos |-> pos, err |-> "ErrInvalidVersion"]
       ELSE [pos |-> pos, err |-> "nil"]

RECURSIVE coreEnd(_, _)
\* parse's first loop: the first index >= pos of a byte that is neither a digit
\* nor '.', or len(s).
coreEnd(str, pos) ==
    IF pos >= Len(str) THEN Len(str)
    ELSE IF ~isDigit(At(str, pos)) /\ At(str, pos) # 46 THEN pos
    ELSE coreEnd(str, pos + 1)

RECURSIVE parseCore_leadingZero(_, _, _)
\* Faulty variant of parse's loop over nums: a number with a leading zero is
\* converted instead of rejected (C16 fails with it).
parseCore_leadingZero(nums, j, acc) ==
    IF j >= Len(nums) THEN [n |-> acc, err |-> "nil"]
    ELSE LET n == nums[j + 1] IN
         IF n = <<>> THEN [n |-> acc, err |-> "ErrInvalidVersion"]
         ELSE IF ~isNumericIdentifier(n) THEN [n |-> acc, err |-> "ErrInvalidVersion"]
         ELSE LET r == ParseUint(n) IN
              IF r.err # "nil" THEN [n |-> acc, err |-> r.err]
              ELSE IF j > 2 THEN [n |-> acc, err |-> "ErrParser"]
              ELSE parseCore_leadingZero(nums, j + 1, [acc EXCEPT ![j + 1] = r.u])

RECURSIVE parseCore(_, _, _)
\* parse's loop over nums, from index j with the numbers set so far in acc
\* (<<major, minor, patch>>).
parseCore(nums, j, acc) ==
    IF j >= Len(nums) THEN [n |-> acc, err |-> "nil"]
    ELSE LET n == nums[j + 1] IN
         IF n = <<>> THEN [n |-> acc, err |-> "ErrInvalidVersion"]
         ELSE IF ~isNumericIdentifier(n) THEN [n |-> acc, err |-> "ErrInvalidVersion"]
         ELSE IF n = <<48>> THEN parseCore(nums, j + 1, acc)
         ELSE IF n[1] = 48 THEN [n |-> acc, err |-> "ErrInvalidVersion"]
         ELSE LET r == ParseUint(n) IN
              IF r.err # "nil" THEN [n |-> acc, err |-> r.err]
              ELSE IF j > 2 THEN [n |-> acc, err |-> "ErrParser"]
              ELSE parseCore(nums, j + 1, [acc EXCEPT ![j + 1] = r.u])

\* Faulty variant of parsePrereleaseIdentifier: a numeric identifier with a
\* leading zero is converted instead of rejected (C4 fails with it).
parsePrereleaseIdentifier_leadingZero(str) ==
    IF str = <<>> THEN [id |-> Nil, err |-> "ErrInvalidVersion"]
    ELSE IF isNumericIdentifier(str)
    THEN LET r == ParseUint(str) IN
         IF r.err # "nil" THEN [id |-> Nil, err |-> r.err]
         ELSE [id |-> numericIdentifier(r.u), err |-> "nil"]
    ELSE IF isAlphanumericIdentifier(str)
    THEN [id |-> alphanumericIdentifier(str), err |-> "nil"]
    ELSE [id |-> Nil, err |-> "ErrInvalidVersion"]

\* Faulty variant of parsePrereleaseIdentifier: a run of digits is kept as text
\* like any other identifier (C29 fails with it).
parsePrereleaseIdentifier_digitsAsText(str) ==
    IF str = <<>> THEN [id |-> Nil, err |-> "ErrInvalidVersion"]
    ELSE IF isAlphanumericIdentifier(str)
    THEN [id |-> alphanumericIdentifier(str), err |-> "nil"]
    ELSE [id |-> Nil, err |-> "ErrInvalidVersion"]

parsePrereleaseIdentifier(str) ==
    IF str = <<>> THEN [id |-> Nil, err |-> "ErrInvalidVersion"]
    ELSE IF str = <<48>> THEN [id |-> numericIdentifier(Zero64), err |-> "nil"]
    ELSE IF isNumericIdentifier(str)
    THEN IF str[1] = 48 THEN [id |-> Nil, err |-> "ErrInvalidVersion"]
         ELSE LET r == ParseUint(str) IN
              IF r.err # "nil" THEN [id |-> Nil, err |-> r.err]
              ELSE [id |-> numericIdentifier(r.u), err |-> "nil"]
    ELSE IF isAlphanumericIdentifier(str)
    THEN [id |-> alphanumericIdentifier(str), err |-> "nil"]
    ELSE [id |-> Nil, err |-> "ErrInvalidVersion"]

RECURSIVE parsePrerelease(_, _)
\* parse's loop over the pre-release parts: each is parsed and appended to the
\* identifiers so far; the first error ends the parse.
parsePrerelease(parts, ids) ==
    IF Len(parts) = 0 THEN [p |-> MakeSlice(ids), err |-> "nil"]
    ELSE LET r == parsePrereleaseIdentifier(parts[1]) IN
         IF r.err # "nil" THEN [p |-> NilSlice, err |-> r.err]
         ELSE parsePrerelease(Tail(parts), Append(ids, r.id))

\* Faulty variant of parseBuild: the identifiers are not tested for being empty
\* (C17 fails with it).
parseBuild_emptyIdentifiers(str) ==
    IF str = <<>> THEN [b |-> NilSlice, err |-> "ErrInvalidVersion"]
    ELSE LET result == Split(str, 46) IN
         IF \E i \in 1..Len(result) : ~isAlphanumericIdentifier(result[i])
         THEN [b |-> NilSlice, err |-> "ErrInvalidVersion"]
         ELSE [b |-> MakeSlice(result), err |-> "nil"]

parseBuild(str) ==
    IF str = <<>> THEN [b |-> NilSlice, err |-> "ErrInvalidVersion"]
    ELSE LET result == Split(str, 46) IN
         IF \E i \in 1..Len(result) :
                result[i] = <<>> \/ ~isAlphanumericIdentifier(result[i])
         THEN [b |-> NilSlice, err |-> "ErrInvalidVersion"]
         ELSE [b |-> MakeSlice(result), err |-> "nil"]

\* parse's tail: the pre-release after a '-' at pos and the build after a '+'.
parseTail(str, pos, core) ==
    LET hasPre == pos < Len(str) /\ At(str, pos) = 45
        plus == IndexByteFrom(str, 43, pos + 1)
        i == IF plus = -1 THEN Len(str) ELSE plus
        pr == IF hasPre
              THEN parsePrerelease(Split(Slice(str, pos + 1, i), 46), <<>>)
              ELSE [p |-> NilSlice, err |-> "nil"]
        pos2 == IF hasPre THEN i ELSE pos
        hasBuild == pos2 < Len(str) /\ At(str, pos2) = 43
        bd == IF hasBuild
              THEN parseBuild(Slice(str, pos2 + 1, Len(str)))
              ELSE [b |-> NilSlice, err |-> "nil"]
    IN IF pr.err # "nil" THEN Fail(pr.err)
       ELSE IF bd.err # "nil" THEN Fail(bd.err)
       ELSE Ok([Major |-> core[1], Minor |-> core[2], Patch |-> core[3],
                Prerelease |-> pr.p, Build |-> bd.b])

parse(str, minCore) ==
    IF str = <<>> THEN Fail("ErrInvalidVersion")
    ELSE IF ~isASCII(str) THEN Fail("ErrInvalidVersion")
    ELSE LET pre == stripPrefix(str) IN
         IF pre.err # "nil" THEN Fail(pre.err)
         ELSE LET i == coreEnd(str, pre.pos)
                  nums == Split(Slice(str, pre.pos, i), 46)
              IN IF Len(nums) > 3 THEN Fail("ErrInvalidVersion")
                 ELSE IF Len(nums) < minCore THEN Fail("ErrInvalidVersion")
                 ELSE LET core == parseCore(nums, 0, <<Zero64, Zero64, Zero64>>) IN
                      IF core.err # "nil" THEN Fail(core.err)
                      ELSE IF i < Len(str) /\ At(str, i) # 45 /\ At(str, i) # 43
                      THEN Fail("ErrInvalidVersion")
                      ELSE parseTail(str, i, core.n)

\* Faulty variant of Parse: on an error the Version parse had built so far (here
\* the zero Version) is returned with it (C13 fails with it).
Parse_keepsVersion(str) ==
    LET r == parse(str, 3) IN
    IF r.err # "nil"
    THEN [v |-> [Major |-> Zero64, Minor |-> Zero64, Patch |-> Zero64,
                 Prerelease |-> NilSlice, Build |-> NilSlice],
          err |-> r.err]
    ELSE Ok(r.v)

\* Parse: parse's Version, or nil and parse's error wrapped with %w.
Parse(str) ==
    LET r == parse(str, 3) IN IF r.err # "nil" THEN Fail(r.err) ELSE Ok(r.v)

\* Faulty variant of ParseLax: the build metadata is left out of the Version
\* (C28 fails with it).
ParseLax_dropsBuild(str) ==
    LET r == parse(str, 0) IN
    IF r.err # "nil" THEN Fail(r.err) ELSE Ok([r.v EXCEPT !.Build = NilSlice])

\* Faulty variant of ParseLax: at least two core numbers are required (C15 fails
\* with it).
ParseLax_needsTwo(str) ==
    LET r == parse(str, 2) IN IF r.err # "nil" THEN Fail(r.err) ELSE Ok(r.v)

ParseLax(str) ==
    LET r == parse(str, 0) IN IF r.err # "nil" THEN Fail(r.err) ELSE Ok(r.v)

(***************************************************************************)
(* Rendering (semver.go)                                                   *)
(***************************************************************************)

\* PrereleaseIdentifier.String
Identifier_String(id) ==
    IF id.type = "numericIdentifier" THEN FormatUint(id.v) ELSE id.v

\* Faulty variant of Prerelease.String: the dot is written from the third
\* identifier on (i > 1 for i > 0), so the first two run together (C5 fails
\* with it).
Prerelease_String_lateDot(p) ==
    IF len(p) = 0 THEN <<>>
    ELSE IF len(p) = 1 THEN Identifier_String(p.elems[1])
    ELSE Identifier_String(p.elems[1])
         \o Join([i \in 1..(len(p) - 1) |-> Identifier_String(p.elems[i + 1])], 46)

\* Prerelease.String
Prerelease_String(p) ==
    IF len(p) = 0 THEN <<>>
    ELSE Join([i \in 1..len(p) |-> Identifier_String(p.elems[i])], 46)

\* Build.String
Build_String(b) == IF len(b) = 0 THEN <<>> ELSE Join(b.elems, 46)

CoreString(ver) ==
    FormatUint(ver.Major) \o <<46>> \o FormatUint(ver.Minor) \o <<46>>
        \o FormatUint(ver.Patch)

\* Faulty variant of ComparableString: the build is written too (C6 fails
\* with it).
ComparableString_withBuild(ver) ==
    FormatUint(ver.Major) \o <<46>> \o FormatUint(ver.Minor) \o <<46>>
        \o FormatUint(ver.Patch)
        \o (IF len(ver.Prerelease) > 0
            THEN <<45>> \o Prerelease_String(ver.Prerelease) ELSE <<>>)
        \o (IF len(ver.Build) > 0
            THEN <<43>> \o Build_String(ver.Build) ELSE <<>>)

ComparableString(ver) ==
    FormatUint(ver.Major) \o <<46>> \o FormatUint(ver.Minor) \o <<46>>
        \o FormatUint(ver.Patch)
        \o (IF len(ver.Prerelease) > 0
            THEN <<45>> \o Prerelease_String(ver.Prerelease) ELSE <<>>)

\* Faulty variant of String: the build is left out (C3 fails with it).
String_withoutBuild(ver) ==
    FormatUint(ver.Major) \o <<46>> \o FormatUint(ver.Minor) \o <<46>>
        \o FormatUint(ver.Patch)
        \o (IF len(ver.Prerelease) > 0
            THEN <<45>> \o Prerelease_String(ver.Prerelease) ELSE <<>>)

String(ver) ==
    FormatUint(ver.Major) \o <<46>> \o FormatUint(ver.Minor) \o <<46>>
        \o FormatUint(ver.Patch)
        \o (IF len(ver.Prerelease) > 0
            THEN <<45>> \o Prerelease_String(ver.Prerelease) ELSE <<>>)
        \o (IF len(ver.Build) > 0
            THEN <<43>> \o Build_String(ver.Build) ELSE <<>>)

(***************************************************************************)
(* The validator (validation.go)                                           *)
(*                                                                         *)
(* A validator returns [ok, pos, panic]: panic is TRUE when the scan       *)
(* indexes the string at or beyond its length, which in Go is a run-time   *)
(* panic and no return at all.                                             *)
(***************************************************************************)

Scan(ok, pos) == [ok |-> ok, pos |-> pos, panic |-> FALSE]

Panic(pos) == [ok |-> FALSE, pos |-> pos, panic |-> TRUE]

RECURSIVE IndexDigit(_, _)
\* strings.IndexFunc(ver, is an ASCII digit): the index of the first digit or -1.
IndexDigit(ver, i) ==
    IF i >= Len(ver) THEN -1
    ELSE IF 48 <= At(ver, i) /\ At(ver, i) <= 57 THEN i
    ELSE IndexDigit(ver, i + 1)

\* prefixes is the set of the strings passed as the variadic argument.
isStartValid(ver, prefixes) ==
    IF ver = <<>> THEN Scan(FALSE, 0)
    ELSE LET pos == IndexDigit(ver, 0) IN
         IF pos = -1 THEN Scan(FALSE, pos)
         ELSE IF pos # 0 /\ Slice(ver, 0, pos) \notin prefixes
                         /\ Slice(ver, 0, pos) # <<118>>
         THEN Scan(FALSE, pos)
         ELSE Scan(TRUE, pos)

\* The bytes that end a version number in each numberMode.
numberEnd(mode) ==
    CASE mode = "dot" -> {46}
      [] mode = "ending" -> {45, 43}
      [] mode = "loose" -> {46, 45, 43}

RECURSIVE numberScan(_, _, _)
\* isVersionNumberValid's loop: the position of the first ending byte, or a
\* failure at the first byte that is not a digit.
numberScan(ver, pos, mode) ==
    IF pos < Len(ver) /\ At(ver, pos) \notin numberEnd(mode)
    THEN IF At(ver, pos) < 48 \/ At(ver, pos) > 57 THEN Scan(FALSE, pos)
         ELSE numberScan(ver, pos + 1, mode)
    ELSE Scan(TRUE, pos)

isVersionNumberValid(ver, start, mode) ==
    LET r == numberScan(ver, start, mode) IN
    IF ~r.ok THEN r
    ELSE IF r.pos - start > 1 /\ At(ver, start) = 48 THEN Scan(FALSE, r.pos)
    ELSE Scan(TRUE, r.pos)

\* Whether b is a byte of an identifier, as the validator spells it out.
validByte(b) ==
    ~(/\ (65 > b \/ b > 90)
      /\ (97 > b \/ b > 122)
      /\ (48 > b \/ b > 57)
      /\ b # 45)

RECURSIVE prereleaseScan(_, _, _, _, _)
\* isPrereleaseValid's loop from pos with its locals num, zero and currentLen.
prereleaseScan(ver, pos, num, zero, currentLen) ==
    IF ~(pos < Len(ver) /\ At(ver, pos) # 43)
    THEN IF zero /\ num /\ currentLen > 1 THEN Scan(FALSE, pos)
         ELSE IF currentLen = 0 THEN Scan(FALSE, pos)
         ELSE Scan(TRUE, pos)
    ELSE LET dotted == At(ver, pos) = 46
             pos1 == IF dotted THEN pos + 1 ELSE pos
             num1 == IF dotted THEN TRUE ELSE num
             zero1 == IF dotted THEN FALSE ELSE zero
             len1 == IF dotted THEN 0 ELSE currentLen
         IN IF dotted /\ zero /\ num /\ currentLen > 1 THEN Scan(FALSE, pos)
            ELSE IF dotted /\ pos1 >= Len(ver) THEN Panic(pos1)
            ELSE LET b == At(ver, pos1)
                     zero2 == IF b = 48 /\ len1 = 0 THEN TRUE ELSE zero1
                     num2 == IF \/ (num1 /\ 65 <= b /\ b <= 90)
                                \/ (97 <= b /\ b <= 122)
                                \/ b = 45
                             THEN FALSE ELSE num1
                 IN IF dotted /\ b = 43 THEN Scan(FALSE, pos1)
                    ELSE IF ~validByte(b) THEN Scan(FALSE, pos1)
                    ELSE prereleaseScan(ver, pos1 + 1, num2, zero2, len1 + 1)

isPrereleaseValid(ver, pos) == prereleaseScan(ver, pos, TRUE, FALSE, 0)

isBuildMetadataValid(ver, pos) ==
    \A i \in pos..(Len(ver) - 1) : validByte(At(ver, i)) \/ At(ver, i) = 46

\* isValid after the patch number: the pre-release and the build, shared with
\* isValidPartial, whose tail is the same code.
validTail(ver, pos) ==
    LET pr == IF At(ver, pos) = 45 THEN isPrereleaseValid(ver, pos + 1)
              ELSE Scan(TRUE, pos)
    IN IF pr.panic THEN pr
       ELSE IF ~pr.ok THEN Scan(FALSE, pr.pos)
       ELSE IF pr.pos >= Len(ver) THEN Scan(TRUE, pr.pos)
       ELSE IF At(ver, pr.pos) = 43 /\ ~isBuildMetadataValid(ver, pr.pos + 1)
       THEN Scan(FALSE, pr.pos)
       ELSE Scan(TRUE, pr.pos)

RECURSIVE dottedNumbers(_, _, _)
\* isValid's loop `for range 2`: n numbers that each end in a dot before the
\* end of the string.
dottedNumbers(ver, pos, n) ==
    IF n = 0 THEN Scan(TRUE, pos)
    ELSE LET r == isVersionNumberValid(ver, pos, "dot") IN
         IF ~r.ok THEN Scan(FALSE, r.pos)
         ELSE IF r.pos >= Len(ver) THEN Scan(FALSE, r.pos)
         ELSE dottedNumbers(ver, r.pos + 1, n - 1)

isValid(ver, prefixes) ==
    LET st == isStartValid(ver, prefixes) IN
    IF ~st.ok THEN Scan(FALSE, st.pos)
    ELSE LET mm == dottedNumbers(ver, st.pos, 2) IN
         IF ~mm.ok THEN Scan(FALSE, mm.pos)
         ELSE LET pa == isVersionNumberValid(ver, mm.pos, "ending") IN
              IF ~pa.ok THEN Scan(FALSE, pa.pos)
              ELSE IF pa.pos >= Len(ver) THEN Scan(TRUE, pa.pos)
              ELSE validTail(ver, pa.pos)

\* isValidPartial's optional minor or patch number: taken when the byte at pos
\* is a dot.  done is TRUE when the validator returns here.
looseNumber(ver, pos) ==
    IF At(ver, pos) = 46
    THEN LET r == isVersionNumberValid(ver, pos + 1, "loose") IN
         [ok |-> r.ok, pos |-> r.pos, done |-> ~r.ok \/ r.pos >= Len(ver)]
    ELSE [ok |-> TRUE, pos |-> pos, done |-> FALSE]

isValidPartial(ver, prefixes) ==
    LET st == isStartValid(ver, prefixes) IN
    IF ~st.ok THEN Scan(FALSE, st.pos)
    ELSE LET ma == isVersionNumberValid(ver, st.pos, "loose") IN
         IF ~ma.ok THEN Scan(FALSE, ma.pos)
         ELSE IF ma.pos >= Len(ver) THEN Scan(TRUE, ma.pos)
         ELSE LET mi == looseNumber(ver, ma.pos) IN
              IF mi.done THEN Scan(mi.ok, mi.pos)
              ELSE LET pa == looseNumber(ver, mi.pos) IN
                   IF pa.done THEN Scan(pa.ok, pa.pos)
                   ELSE validTail(ver, pa.pos)

IsValid(ver) == isValid(ver, {})

IsValidPrefix(ver, p) == isValid(ver, p)

IsValidPartial(ver) == isValidPartial(ver, {})

IsValidPartialPrefix(ver, p) == isValidPartial(ver, p)

(***************************************************************************)
(* Comparison and equality (semver.go)                                     *)
(***************************************************************************)

\* Faulty variant of alphanumericIdentifier.compare: a shorter identifier is
\* less than a longer one whatever their bytes (C24 fails with it).
alphanumericIdentifier_compare_byLength(i, o) ==
    IF o.type = "numericIdentifier" THEN 1
    ELSE IF Len(i.v) # Len(o.v) THEN cmpInt(Len(i.v), Len(o.v))
    ELSE cmpString(i.v, o.v)

\* alphanumericIdentifier.compare
alphanumericIdentifier_compare(i, o) ==
    IF o.type = "numericIdentifier" THEN 1 ELSE cmpString(i.v, o.v)

\* Faulty variant of numericIdentifier.compare: the numbers are compared as
\* their digit strings (C9 fails with it).
numericIdentifier_compare_asText(i, o) ==
    IF o.type = "alphanumericIdentifier" THEN -1
    ELSE cmpString(FormatUint(i.v), FormatUint(o.v))

\* Faulty variant of numericIdentifier.compare: a number is greater than an
\* alphanumeric identifier that starts with a lower-case letter (C23 fails
\* with it).
numericIdentifier_compare_aboveLowercase(i, o) ==
    IF o.type = "alphanumericIdentifier"
    THEN (IF o.v[1] >= 97 THEN 1 ELSE -1)
    ELSE cmpUint64(i.v, o.v)

\* numericIdentifier.compare
numericIdentifier_compare(i, o) ==
    IF o.type = "alphanumericIdentifier" THEN -1 ELSE cmpUint64(i.v, o.v)

\* Faulty variant of comparePrereleaseIdentifiers: a missing identifier on the
\* left is greater instead of less (C7 fails with it).
comparePrereleaseIdentifiers_nilGreater(x, y) ==
    IF x = y THEN 0
    ELSE IF x = Nil THEN 1
    ELSE IF y = Nil THEN 1
    ELSE IF x.type = "alphanumericIdentifier"
    THEN alphanumericIdentifier_compare(x, y)
    ELSE numericIdentifier_compare(x, y)

\* x and y are identifiers or Nil (the nil interface).
comparePrereleaseIdentifiers(x, y) ==
    IF x = y THEN 0
    ELSE IF x = Nil THEN (IF y # Nil THEN -1 ELSE 1)
    ELSE IF y = Nil THEN 1
    ELSE IF x.type = "alphanumericIdentifier"
    THEN alphanumericIdentifier_compare(x, y)
    ELSE numericIdentifier_compare(x, y)

RECURSIVE Prerelease_compareFrom(_, _, _)
\* Prerelease.compare's loop from index i (zero-based) to max(len(p), len(o)).
Prerelease_compareFrom(p, o, i) ==
    IF i >= len(p) /\ i >= len(o) THEN 0
    ELSE LET x == IF i < len(p) THEN p.elems[i + 1] ELSE Nil
             y == IF i < len(o) THEN o.elems[i + 1] ELSE Nil
             d == comparePrereleaseIdentifiers(x, y)
         IN IF d # 0 THEN d ELSE Prerelease_compareFrom(p, o, i + 1)

\* Prerelease.compare
Prerelease_compare(p, o) == Prerelease_compareFrom(p, o, 0)

\* alphanumericIdentifier.equal and numericIdentifier.equal: the same dynamic
\* type and the same value.
Identifier_equal(a, b) == a.type = b.type /\ a.v = b.v

\* Prerelease.equal: slices.EqualFunc over the identifiers' equal.
Prerelease_equal(p, o) ==
    /\ len(p) = len(o)
    /\ \A i \in 1..len(p) : Identifier_equal(p.elems[i], o.elems[i])

\* Build.equal: slices.Equal.
Build_equal(b, a) ==
    /\ len(b) = len(a)
    /\ \A i \in 1..len(b) : b.elems[i] = a.elems[i]

\* A value a call returns, or the run-time panic that ends it.
Returns(x) == [panic |-> FALSE, val |-> x]

Panics == [panic |-> TRUE, val |-> Nil]

\* Faulty variant of Version.Compare: Versions that are otherwise equal are
\* ordered by the number of their build identifiers (C10 fails with it).
Compare_buildTiebreak(x, y) ==
    IF cmpUint64(x.Major, y.Major) # 0 THEN cmpUint64(x.Major, y.Major)
    ELSE IF cmpUint64(x.Minor, y.Minor) # 0 THEN cmpUint64(x.Minor, y.Minor)
    ELSE IF cmpUint64(x.Patch, y.Patch) # 0 THEN cmpUint64(x.Patch, y.Patch)
    ELSE IF x.Prerelease.isNil /\ ~y.Prerelease.isNil THEN 1
    ELSE IF ~x.Prerelease.isNil /\ y.Prerelease.isNil THEN -1
    ELSE IF Prerelease_compare(x.Prerelease, y.Prerelease) # 0
    THEN Prerelease_compare(x.Prerelease, y.Prerelease)
    ELSE cmpInt(len(x.Build), len(y.Build))

\* Version.Compare on two non-nil Versions.
Compare(x, y) ==
    IF cmpUint64(x.Major, y.Major) # 0 THEN cmpUint64(x.Major, y.Major)
    ELSE IF cmpUint64(x.Minor, y.Minor) # 0 THEN cmpUint64(x.Minor, y.Minor)
    ELSE IF cmpUint64(x.Patch, y.Patch) # 0 THEN cmpUint64(x.Patch, y.Patch)
    ELSE IF x.Prerelease.isNil /\ ~y.Prerelease.isNil THEN 1
    ELSE IF ~x.Prerelease.isNil /\ y.Prerelease.isNil THEN -1
    ELSE Prerelease_compare(x.Prerelease, y.Prerelease)

\* Version.Equal on two non-nil Versions.
Equal(x, y) ==
    /\ x.Major = y.Major /\ x.Minor = y.Minor /\ x.Patch = y.Patch
    /\ Prerelease_equal(x.Prerelease, y.Prerelease)

\* Version.StrictEqual on two non-nil Versions.
StrictEqual(x, y) ==
    /\ x.Major = y.Major /\ x.Minor = y.Minor /\ x.Patch = y.Patch
    /\ Prerelease_equal(x.Prerelease, y.Prerelease)
    /\ Build_equal(x.Build, y.Build)

\* x.Compare(y) on pointers: a nil receiver or argument is dereferenced.
CallCompare(x, y) ==
    IF x = Nil \/ y = Nil THEN Panics ELSE Returns(Compare(x, y))

\* x.Equal(y) on pointers: a nil argument is answered before any field is read.
CallEqual(x, y) ==
    IF y = Nil THEN Returns(x = Nil)
    ELSE IF x = Nil THEN Panics
    ELSE Returns(Equal(x, y))

\* x.StrictEqual(y) on pointers.
CallStrictEqual(x, y) ==
    IF y = Nil THEN Returns(x = Nil)
    ELSE IF x = Nil THEN Panics
    ELSE Returns(StrictEqual(x, y))

\* Faulty variant of MustParse: the string is parsed with ParseLax (C20 fails
\* with it).
MustParse_lax(str) ==
    LET r == ParseLax(str) IN IF r.err # "nil" THEN Panics ELSE Returns(r.v)

\* MustParse and MustParseLax: the parsed Version, or a panic on any error.
MustParse(str) ==
    LET r == Parse(str) IN IF r.err # "nil" THEN Panics ELSE Returns(r.v)

MustParseLax(str) ==
    LET r == ParseLax(str) IN IF r.err # "nil" THEN Panics ELSE Returns(r.v)

(***************************************************************************)
(* The inputs                                                              *)
(***************************************************************************)

\* The most core components, pre-release identifiers and build identifiers an
\* input is made of.
MaxCoreParts == 4

MaxIds == 2

MaxBuildIds == 2

\* All sequences of lo..hi elements of set.
SeqsOf(set, lo, hi) == UNION {[1..n -> set] : n \in lo..hi}

\* 2^64-1, 2^64, 2*10^19 and 10^7 as digit strings.
MaxUintDigits == Str(<<"1", "8", "4", "4", "6", "7", "4", "4", "0", "7", "3", "7", "0", "9", "5", "5", "1", "6", "1", "5">>)

OverflowDigits == Str(<<"1", "8", "4", "4", "6", "7", "4", "4", "0", "7", "3", "7", "0", "9", "5", "5", "1", "6", "1", "6">>)

FarOverflowDigits == Str(<<"2", "0", "0", "0", "0", "0", "0", "0", "0", "0", "0", "0", "0", "0", "0", "0", "0", "0", "0", "0">>)

BigNums ==
    {MaxUintDigits, OverflowDigits, FarOverflowDigits,
     Str(<<"1", "0", "0", "0", "0", "0", "0", "0">>)}

\* Core components: empty, zero, a digit, a number with a leading zero.
CoreNums == {Str(<<>>), Str(<<"0">>), Str(<<"1">>), Str(<<"0", "1">>)}

\* Cores of 1..MaxCoreParts small components, and cores of one to three
\* components with a big number in one place.
Cores ==
    {Join(c, 46) : c \in SeqsOf(CoreNums, 1, MaxCoreParts)}
    \cup {Join([i \in 1..k |-> IF i = j THEN n ELSE Str(<<"1">>)], 46) :
             k \in 1..3, j \in 1..3, n \in BigNums}

FewCores == {Str(<<"1", ".", "2", ".", "3">>), Str(<<"1", ".", "2">>)}

\* What the callers of the *Prefix validators pass as prefixes.
PrefixArgs == {{}, {Str(<<"x">>)}, {Str(<<"x", "1">>)}, {Str(<<"0xC8">>)}}

Prefixes ==
    {Str(<<>>), Str(<<"v">>), Str(<<"V">>), Str(<<"v", "v">>), Str(<<"x">>),
     Str(<<"x", "1">>), Str(<<"0xC8">>)}

FewPrefixes == {Str(<<>>), Str(<<"v">>)}

\* Pre-release identifiers: empty, numeric, leading zero, alphanumeric, with a
\* byte outside the identifier bytes, with a byte above ASCII, and big numbers.
PreIds ==
    {Str(<<>>), Str(<<"0">>), Str(<<"1">>), Str(<<"0", "1">>), Str(<<"a">>),
     Str(<<"0", "a">>), Str(<<"-">>), Str(<<"_">>), Str(<<"0xC8">>),
     MaxUintDigits, OverflowDigits}

BuildIds ==
    {Str(<<>>), Str(<<"0", "1">>), Str(<<"b">>), Str(<<"b", "+">>),
     Str(<<"_">>), Str(<<"0xC8">>)}

\* Nothing, or '-' and 0..MaxIds identifiers joined by dots.
Pres ==
    {<<>>} \cup {<<45>> \o Join(p, 46) : p \in SeqsOf(PreIds, 0, MaxIds)}

\* Nothing, or '+' and 0..MaxBuildIds identifiers joined by dots.
Builds ==
    {<<>>} \cup {<<43>> \o Join(b, 46) : b \in SeqsOf(BuildIds, 0, MaxBuildIds)}

FewPres == {Str(<<>>), Str(<<"-", "a">>)}

FewBuilds == {Str(<<>>), Str(<<"+", "b">>)}

\* What follows the core where only the core varies: also a byte that is
\* neither '-' nor '+', and a byte above ASCII.
Tails ==
    {Str(<<>>), Str(<<"-", "a">>), Str(<<"+", "b">>), Str(<<"x">>),
     Str(<<"0xC8">>)}

Inputs ==
    {p \o c \o t : p \in FewPrefixes, c \in Cores, t \in Tails}
    \cup {p \o c \o t : p \in Prefixes, c \in FewCores, t \in Tails}
    \cup {p \o c \o a \o b :
             p \in FewPrefixes, c \in FewCores, a \in Pres, b \in FewBuilds}
    \cup {p \o c \o a \o b :
             p \in FewPrefixes, c \in FewCores, a \in FewPres, b \in Builds}

(***************************************************************************)
(* The calls on a string                                                   *)
(*                                                                         *)
(* s is the string passed, calls the calls made, ret what the last call    *)
(* returned,                                                               *)
(* v the Version a parse returned (Nil before and after a failed parse).   *)
(* w is the second Version of the two-Version calls further down.          *)
(***************************************************************************)

Init ==
    /\ s \in Inputs
    /\ v = Nil
    /\ w = Nil
    /\ calls = <<>>
    /\ ret = Nil

DoParse ==
    /\ calls = <<>>
    /\ calls' = <<"Parse">>
    /\ ret' = Parse(s)
    /\ v' = Parse(s).v
    /\ UNCHANGED <<s, w>>

DoParseLax ==
    /\ calls = <<>>
    /\ calls' = <<"ParseLax">>
    /\ ret' = ParseLax(s)
    /\ v' = ParseLax(s).v
    /\ UNCHANGED <<s, w>>

DoMustParse ==
    /\ calls = <<>>
    /\ calls' = <<"MustParse">>
    /\ ret' = MustParse(s)
    /\ v' = MustParse(s).val
    /\ UNCHANGED <<s, w>>

DoMustParseLax ==
    /\ calls = <<>>
    /\ calls' = <<"MustParseLax">>
    /\ ret' = MustParseLax(s)
    /\ v' = MustParseLax(s).val
    /\ UNCHANGED <<s, w>>

\* What a validator returns: its boolean, or the panic of an index out of range.
Validated(r) == IF r.panic THEN Panics ELSE Returns(r.ok)

DoIsValid ==
    /\ calls = <<>>
    /\ calls' = <<"IsValid">>
    /\ ret' = Validated(IsValid(s))
    /\ UNCHANGED <<s, v, w>>

DoIsValidPrefix ==
    /\ calls = <<>>
    /\ \E p \in PrefixArgs :
          /\ calls' = <<"IsValidPrefix">>
          /\ ret' = [Validated(IsValidPrefix(s, p)) EXCEPT !.val = <<p, @>>]
    /\ UNCHANGED <<s, v, w>>

DoIsValidPartial ==
    /\ calls = <<>>
    /\ calls' = <<"IsValidPartial">>
    /\ ret' = Validated(IsValidPartial(s))
    /\ UNCHANGED <<s, v, w>>

DoIsValidPartialPrefix ==
    /\ calls = <<>>
    /\ \E p \in PrefixArgs :
          /\ calls' = <<"IsValidPartialPrefix">>
          /\ ret' = [Validated(IsValidPartialPrefix(s, p)) EXCEPT !.val = <<p, @>>]
    /\ UNCHANGED <<s, v, w>>

\* The three renderings of the Version a parse returned.
Parsed == calls \in {<<"Parse">>, <<"ParseLax">>} /\ v # Nil

DoString ==
    /\ Parsed
    /\ calls' = Append(calls, "String")
    /\ ret' = String(v)
    /\ UNCHANGED <<s, v, w>>

DoComparableString ==
    /\ Parsed
    /\ calls' = Append(calls, "ComparableString")
    /\ ret' = ComparableString(v)
    /\ UNCHANGED <<s, v, w>>

DoCoreString ==
    /\ Parsed
    /\ calls' = Append(calls, "CoreString")
    /\ ret' = CoreString(v)
    /\ UNCHANGED <<s, v, w>>

Next ==
    \/ DoParse
    \/ DoParseLax
    \/ DoMustParse
    \/ DoMustParseLax
    \/ DoIsValid
    \/ DoIsValidPrefix
    \/ DoIsValidPartial
    \/ DoIsValidPartialPrefix
    \/ DoString
    \/ DoComparableString
    \/ DoCoreString

Spec == Init /\ [][Next]_vars

(***************************************************************************)
(* Versions built from parts (semver.go, semver_internal_test.go)          *)
(***************************************************************************)

RECURSIVE newPrereleaseFrom(_, _)
\* newPrerelease's loop: a is a sequence of [kind, val], kind "uint64" with a
\* uint64 or "string" with a string.
newPrereleaseFrom(a, identifiers) ==
    IF Len(a) = 0 THEN [p |-> MakeSlice(identifiers), err |-> "nil"]
    ELSE IF a[1].kind = "uint64"
    THEN newPrereleaseFrom(Tail(a), Append(identifiers, numericIdentifier(a[1].val)))
    ELSE IF ~isASCII(a[1].val) THEN [p |-> NilSlice, err |-> "ErrInvalidVersion"]
    ELSE LET r == parsePrereleaseIdentifier(a[1].val) IN
         IF r.err # "nil" THEN [p |-> NilSlice, err |-> r.err]
         ELSE newPrereleaseFrom(Tail(a), Append(identifiers, r.id))

newPrerelease(a) == newPrereleaseFrom(a, <<>>)

\* newBuild: a non-nil slice with a copy of the strings.
newBuild(strs) == MakeSlice(strs)

\* newVersion of the tests: a Version from its parts; pr is a Prerelease.
newVersion(major, minor, patch, pr, b) ==
    [Major |-> major, Minor |-> minor, Patch |-> patch,
     Prerelease |-> pr, Build |-> newBuild(b)]

(***************************************************************************)
(* The calls on two Versions                                               *)
(***************************************************************************)

\* The most identifiers in a pre-release of the compared Versions.
MaxCmpIds == 2

\* Components that differ in value and in digit count, and across limbs.
CmpCores ==
    {Join(c, 46) : c \in [1..3 -> {Str(<<"1">>), Str(<<"2">>)}]}
    \cup {Str(<<"1", "0", ".", "1", ".", "1">>), Str(<<"1", ".", "2">>),
          Str(<<"2">>), MaxUintDigits \o Str(<<".", "1", ".", "1">>),
          Str(<<"1", "0", "0", "0", "0", "0", "0", "0", ".", "1", ".", "1">>)}

\* Identifiers whose numeric, byte and length orders differ.
CmpIds ==
    {Str(<<"2">>), Str(<<"1", "0">>), Str(<<"a">>), Str(<<"B">>),
     Str(<<"a", "b">>)}

CmpPres ==
    {<<>>} \cup {<<45>> \o Join(p, 46) : p \in SeqsOf(CmpIds, 1, MaxCmpIds)}

CmpBuilds ==
    {Str(<<"+", "x">>), Str(<<"+", "y">>), Str(<<"+", "x", ".", "y">>)}

\* The versions of the SemVer precedence example, least first.
PrecedenceChain ==
    <<Str(<<"1", ".", "0", ".", "0", "-", "a", "l", "p", "h", "a">>),
      Str(<<"1", ".", "0", ".", "0", "-", "a", "l", "p", "h", "a", ".", "1">>),
      Str(<<"1", ".", "0", ".", "0", "-", "a", "l", "p", "h", "a", ".",
            "b", "e", "t", "a">>),
      Str(<<"1", ".", "0", ".", "0", "-", "b", "e", "t", "a">>),
      Str(<<"1", ".", "0", ".", "0", "-", "b", "e", "t", "a", ".", "2">>),
      Str(<<"1", ".", "0", ".", "0", "-", "b", "e", "t", "a", ".", "1", "1">>),
      Str(<<"1", ".", "0", ".", "0", "-", "r", "c", ".", "1">>),
      Str(<<"1", ".", "0", ".", "0">>)>>

\* Two versions that differ in the build metadata only.
Build1 == Str(<<"1", ".", "0", ".", "0", "+", "b", "u", "i", "l", "d", "1">>)

Build2 == Str(<<"1", ".", "0", ".", "0", "+", "b", "u", "i", "l", "d", "2">>)

CmpInputs ==
    {PrecedenceChain[k] : k \in DOMAIN PrecedenceChain}
    \cup {Build1, Build2}
    \cup {c \o t : c \in CmpCores, t \in FewPres}
    \cup {Str(<<"1", ".", "2", ".", "1">>) \o p : p \in CmpPres}
    \cup {Str(<<"1", ".", "2", ".", "1">>) \o p \o b :
             p \in {Str(<<>>), Str(<<"-", "a">>), Str(<<"-", "a", ".", "2">>)},
             b \in CmpBuilds}

\* The Versions Parse and ParseLax return for the inputs.
ParsedVersions ==
    {Parse(x).v : x \in {y \in CmpInputs : Parse(y).err = "nil"}}
    \cup {ParseLax(x).v : x \in {y \in CmpInputs : ParseLax(y).err = "nil"}}

One64 == <<0, 0, 1>>

Two64 == <<0, 0, 2>>

\* The Versions the tests build: a nil Prerelease, newTestPrerelease() with no
\* identifier, and with identifiers given as strings and numbers.
BuiltVersions ==
    {[newVersion(One64, Two64, One64, NilSlice, <<>>) EXCEPT !.Build = NilSlice],
     newVersion(One64, Two64, One64, newPrerelease(<<>>).p, <<>>),
     newVersion(One64, Two64, One64, newPrerelease(<<>>).p, <<Str(<<"x">>)>>),
     newVersion(One64, Two64, One64,
                newPrerelease(<<[kind |-> "string", val |-> Str(<<"a">>)],
                                [kind |-> "uint64", val |-> Two64]>>).p, <<>>)}

Versions == ParsedVersions \cup BuiltVersions \cup {Nil}

InitCmp ==
    /\ s = <<>>
    /\ v \in Versions
    /\ w \in Versions
    /\ calls = <<>>
    /\ ret = Nil

DoCompare ==
    /\ calls = <<>>
    /\ calls' = <<"Compare">>
    /\ ret' = CallCompare(v, w)
    /\ UNCHANGED <<s, v, w>>

DoEqual ==
    /\ calls = <<>>
    /\ calls' = <<"Equal">>
    /\ ret' = CallEqual(v, w)
    /\ UNCHANGED <<s, v, w>>

DoStrictEqual ==
    /\ calls = <<>>
    /\ calls' = <<"StrictEqual">>
    /\ ret' = CallStrictEqual(v, w)
    /\ UNCHANGED <<s, v, w>>

NextCmp ==
    \/ DoCompare
    \/ DoEqual
    \/ DoStrictEqual

SpecCmp == InitCmp /\ [][NextCmp]_vars

(***************************************************************************)
(* Properties                                                              *)
(***************************************************************************)

\* The input without one leading 'v'.
StripV(str) == IF Len(str) > 0 /\ str[1] = 118 THEN Tail(str) ELSE str

\* x and y are non-nil and Equal, StrictEqual and Compare() == 0.
SameVersion(x, y) ==
    /\ CallEqual(x, y) = Returns(TRUE)
    /\ CallStrictEqual(x, y) = Returns(TRUE)
    /\ CallCompare(x, y) = Returns(0)

\* C1: for every input string, IsValid returns true if and only if Parse
\* returns no error (a validator that panics returns nothing).
C1_StrictAgreement ==
    calls = <<"IsValid">> => ret = Returns(Parse(s).err = "nil")

\* C2: for every input string, the lax validator returns true if and only if
\* ParseLax returns no error.
C2_LaxAgreement ==
    calls = <<"IsValidPartial">> => ret = Returns(ParseLax(s).err = "nil")

\* C3: for every string Parse accepts, parsing the String() of the result
\* succeeds and gives a Version that is Equal, StrictEqual and Compare() == 0
\* with the result.
C3_FullRoundTrip ==
    calls = <<"Parse", "String">> =>
        /\ Parse(ret).err = "nil"
        /\ SameVersion(v, Parse(ret).v)

C3_Witness ==
    /\ calls = <<"Parse", "String">>
    /\ len(v.Prerelease) > 1
    /\ len(v.Build) > 0

\* C4: for every string Parse accepts, the String() of the result is the
\* input, byte for byte, without one leading 'v'.
C4_NoCanonicalization ==
    calls = <<"Parse", "String">> => ret = StripV(s)

C4_Witness ==
    /\ calls = <<"Parse", "String">>
    /\ s[1] = 118
    /\ len(v.Prerelease) > 0
    /\ len(v.Build) > 1

\* C5: for every string ParseLax accepts, the String() of the result is
\* accepted by Parse and by ParseLax, and the two re-parsed Versions are Equal,
\* StrictEqual and Compare() == 0 with the result and with each other.
C5_LaxRoundTrip ==
    calls = <<"ParseLax", "String">> =>
        /\ Parse(ret).err = "nil"
        /\ ParseLax(ret).err = "nil"
        /\ SameVersion(v, Parse(ret).v)
        /\ SameVersion(v, ParseLax(ret).v)
        /\ SameVersion(Parse(ret).v, ParseLax(ret).v)

C5_Witness ==
    /\ calls = <<"ParseLax", "String">>
    /\ Parse(s).err # "nil"
    /\ len(v.Prerelease) > 0

\* C6: for every Version Parse or ParseLax returns, Parse of its
\* ComparableString() succeeds and is Equal and StrictEqual to the Version with
\* the same numbers and pre-release and no build, and Parse of its CoreString()
\* succeeds and is Equal and StrictEqual to the Version with the same numbers
\* and neither pre-release nor build.
C6_ComparableCoreRoundTrip ==
    /\ (Len(calls) = 2 /\ calls[2] = "ComparableString") =>
           LET tv == [Major |-> v.Major, Minor |-> v.Minor, Patch |-> v.Patch,
                      Prerelease |-> v.Prerelease, Build |-> NilSlice]
           IN /\ Parse(ret).err = "nil"
              /\ CallEqual(tv, Parse(ret).v) = Returns(TRUE)
              /\ CallStrictEqual(tv, Parse(ret).v) = Returns(TRUE)
    /\ (Len(calls) = 2 /\ calls[2] = "CoreString") =>
           LET tv == [Major |-> v.Major, Minor |-> v.Minor, Patch |-> v.Patch,
                      Prerelease |-> NilSlice, Build |-> NilSlice]
           IN /\ Parse(ret).err = "nil"
              /\ CallEqual(tv, Parse(ret).v) = Returns(TRUE)
              /\ CallStrictEqual(tv, Parse(ret).v) = Returns(TRUE)

C6_Witness ==
    /\ calls = <<"ParseLax", "ComparableString">>
    /\ len(v.Prerelease) > 0
    /\ len(v.Build) > 0

\* Both Versions are non-nil and have the same major, minor and patch.
SameCore ==
    /\ v # Nil /\ w # Nil
    /\ v.Major = w.Major /\ v.Minor = w.Minor /\ v.Patch = w.Patch

\* C7: for Versions a and b that Parse or ParseLax returned, Compare(a, a) is 0,
\* Compare(a, b) is -Compare(b, a), and the result is -1, 0 or +1.
C7_CompareAntisymmetric ==
    (calls = <<"Compare">> /\ v \in ParsedVersions /\ w \in ParsedVersions) =>
        /\ ~ret.panic
        /\ ret.val \in {-1, 0, 1}
        /\ CallCompare(w, v) = Returns(0 - ret.val)
        /\ CallCompare(v, v) = Returns(0)

C7_Witness ==
    /\ calls = <<"Compare">>
    /\ v \in ParsedVersions /\ w \in ParsedVersions
    /\ SameCore
    /\ len(v.Prerelease) > len(w.Prerelease)
    /\ len(w.Prerelease) > 0
    /\ ret.val = 1

\* C8: for two Versions with equal major, minor and patch, parsed or built from
\* parts, one with an empty pre-release (nil or not) is greater than one with a
\* non-empty pre-release, and two with empty pre-releases compare as 0.
C8_ReleaseOutranksPrerelease ==
    (calls = <<"Compare">> /\ SameCore) =>
        /\ (len(v.Prerelease) = 0 /\ len(w.Prerelease) > 0) => ret = Returns(1)
        /\ (len(v.Prerelease) > 0 /\ len(w.Prerelease) = 0) => ret = Returns(-1)
        /\ (len(v.Prerelease) = 0 /\ len(w.Prerelease) = 0) => ret = Returns(0)

\* The least element of a non-empty set of integers.
Least(S) == CHOOSE i \in S : \A j \in S : i <= j

\* The order of two pre-release identifier sequences as the claim states it:
\* the first position where they differ decides, numbers by value, others by
\* bytes, a number below any other; without such a position the shorter is less.
Precedence(p, o) ==
    LET n == IF Len(p) < Len(o) THEN Len(p) ELSE Len(o)
        D == {i \in 1..n : p[i] # o[i]}
    IN IF D = {} THEN cmpInt(Len(p), Len(o))
       ELSE LET x == p[Least(D)]
                y == o[Least(D)]
            IN IF x.type = "numericIdentifier" /\ y.type = "numericIdentifier"
               THEN cmpUint64(x.v, y.v)
               ELSE IF x.type = "numericIdentifier" THEN -1
               ELSE IF y.type = "numericIdentifier" THEN 1
               ELSE cmpString(x.v, y.v)

\* C9: for two Versions with equal core and non-empty pre-releases, Compare is
\* decided by the first position where the identifiers differ (numeric by value,
\* alphanumeric by bytes, numeric below alphanumeric), and a proper prefix is
\* less.
C9_PrereleasePrecedence ==
    (/\ calls = <<"Compare">>
     /\ SameCore
     /\ len(v.Prerelease) > 0
     /\ len(w.Prerelease) > 0) =>
        ret = Returns(Precedence(v.Prerelease.elems, w.Prerelease.elems))

C9_Witness ==
    /\ calls = <<"Compare">>
    /\ SameCore
    /\ len(v.Prerelease) = 2
    /\ len(w.Prerelease) = 2
    /\ v.Prerelease.elems[1] = w.Prerelease.elems[1]
    /\ v.Prerelease.elems[2].type = "numericIdentifier"
    /\ w.Prerelease.elems[2].type = "numericIdentifier"
    /\ cmpString(FormatUint(v.Prerelease.elems[2].v),
                 FormatUint(w.Prerelease.elems[2].v)) = 1
    /\ ret.val = -1

\* The build sequences the Versions are given in C10.
SomeBuilds ==
    {NilSlice, newBuild(<<>>), newBuild(<<Str(<<"x">>)>>),
     newBuild(<<Str(<<"y">>), Str(<<"x">>)>>)}

\* C10: Compare and Equal give the same result whatever build sequences the two
\* Versions carry, and StrictEqual holds exactly when Equal holds and the build
\* sequences have the same strings in the same order.
C10_BuildIgnored ==
    /\ (calls = <<"Compare">> /\ v # Nil /\ w # Nil) =>
           \A x \in SomeBuilds, y \in SomeBuilds :
               CallCompare([v EXCEPT !.Build = x], [w EXCEPT !.Build = y]) = ret
    /\ (calls = <<"Equal">> /\ v # Nil /\ w # Nil) =>
           \A x \in SomeBuilds, y \in SomeBuilds :
               CallEqual([v EXCEPT !.Build = x], [w EXCEPT !.Build = y]) = ret
    /\ (calls = <<"StrictEqual">> /\ v # Nil /\ w # Nil) =>
           ret = Returns(/\ CallEqual(v, w) = Returns(TRUE)
                         /\ v.Build.elems = w.Build.elems)

C10_Witness ==
    /\ calls = <<"StrictEqual">>
    /\ v # Nil /\ w # Nil
    /\ CallEqual(v, w) = Returns(TRUE)
    /\ len(v.Build) = len(w.Build)
    /\ v.Build.elems # w.Build.elems

\* C11: for non-nil Versions a and b, parsed or built from parts, a.Equal(b) is
\* true if and only if a.Compare(b) is 0.
C11_EqualAgreesWithCompare ==
    (calls = <<"Equal">> /\ v # Nil /\ w # Nil) =>
        ret = Returns(CallCompare(v, w) = Returns(0))

\* C12: every error Parse or ParseLax returns matches ErrInvalidVersion, also
\* the error for a number above the 64-bit unsigned range.
C12_SingleErrorKind ==
    (calls \in {<<"Parse">>, <<"ParseLax">>} /\ ret.err # "nil") =>
        ret.err = "ErrInvalidVersion"

\* C13: Parse and ParseLax return exactly one of a non-nil Version and a
\* non-nil error: nil with an error, non-nil with none.
C13_NoPartialResults ==
    calls \in {<<"Parse">>, <<"ParseLax">>} =>
        /\ ret.err # "nil" => ret.v = Nil
        /\ ret.err = "nil" => ret.v # Nil

\* A parse that fails after its core numbers were read.
C13_Witness ==
    /\ calls = <<"Parse">>
    /\ ret.err # "nil"
    /\ ret.v = Nil
    /\ Len(s) > 0
    /\ Parse(Slice(s, 0, coreEnd(s, 0))).err = "nil"

\* The index of the first byte after one leading 'v'.
CoreStart(str) == IF Len(str) > 0 /\ str[1] = 118 THEN 1 ELSE 0

\* The dot-separated components of the run of digits and dots that follows the
\* optional 'v'.
CoreOf(str) ==
    Split(Slice(str, CoreStart(str), coreEnd(str, CoreStart(str))), 46)

\* str with the components of its core replaced by parts.
WithCore(str, parts) ==
    Slice(str, 0, CoreStart(str)) \o Join(parts, 46)
        \o Slice(str, coreEnd(str, CoreStart(str)), Len(str))

\* n is a decimal number without a leading zero that is 2^64 or more: longer
\* than the digits of 2^64-1, or as long and after them in byte order.
Above64(n) ==
    /\ Len(n) > 0
    /\ \A i \in 1..Len(n) : n[i] >= 48 /\ n[i] <= 57
    /\ n[1] # 48
    /\ \/ Len(n) > Len(MaxUintDigits)
       \/ Len(n) = Len(MaxUintDigits) /\ cmpString(n, MaxUintDigits) > 0

\* The parse that the call of this state made, applied to str.
SameParse(str) == IF calls[1] = "Parse" THEN Parse(str) ELSE ParseLax(str)

\* C14: a core component of 18446744073709551615 is accepted where a 1 is,
\* stored as 2^64-1 and rendered with the same digits; a core component of 2^64
\* or more makes Parse and ParseLax fail.
C14_OverflowBoundary ==
    calls \in {<<"Parse">>, <<"ParseLax">>} =>
        \A j \in 1..Len(CoreOf(s)) :
            /\ CoreOf(s)[j] = MaxUintDigits =>
                   /\ (ret.err = "nil") <=>
                          (SameParse(WithCore(s, [CoreOf(s) EXCEPT ![j] = <<49>>])).err
                               = "nil")
                   /\ ret.err = "nil" =>
                          /\ <<ret.v.Major, ret.v.Minor, ret.v.Patch>>[j] = MaxUint64
                          /\ CoreOf(String(ret.v))[j] = MaxUintDigits
            /\ Above64(CoreOf(s)[j]) => ret.err # "nil"

\* 2^64-1 was accepted as the minor number.
C14_Witness ==
    /\ calls = <<"Parse">>
    /\ ret.err = "nil"
    /\ Len(CoreOf(s)) = 3
    /\ CoreOf(s)[2] = MaxUintDigits
    /\ ret.v.Minor = MaxUint64

\* str with its core filled up to three components with "0".
Padded(str) ==
    WithCore(str, [i \in 1..3 |->
                      IF i <= Len(CoreOf(str)) THEN CoreOf(str)[i] ELSE <<48>>])

\* C15: Parse succeeds only on a core of exactly three numeric components;
\* ParseLax on a core of one to three components does what Parse does on the
\* core filled up with zeros, pre-release and build included; both reject a core
\* of four or more components and any empty component.
C15_CoreComponentCount ==
    LET parts == CoreOf(s) IN
    /\ (calls = <<"Parse">> /\ ret.err = "nil") =>
           /\ Len(parts) = 3
           /\ \A j \in 1..3 : isNumericIdentifier(parts[j]) /\ parts[j] # <<>>
    /\ (calls = <<"ParseLax">> /\ Len(parts) <= 3) =>
           /\ (ret.err = "nil") <=> (Parse(Padded(s)).err = "nil")
           /\ ret.err = "nil" =>
                  /\ CallStrictEqual(ret.v, Parse(Padded(s)).v) = Returns(TRUE)
                  /\ Len(parts) < 2 => ret.v.Minor = Zero64
                  /\ Len(parts) < 3 => ret.v.Patch = Zero64
    /\ (/\ calls \in {<<"Parse">>, <<"ParseLax">>}
        /\ \/ Len(parts) >= 4
           \/ \E j \in 1..Len(parts) : parts[j] = <<>>) =>
           ret.err # "nil"

\* ParseLax accepted two components followed by a pre-release and a build.
C15_Witness ==
    /\ calls = <<"ParseLax">>
    /\ Len(CoreOf(s)) = 2
    /\ ret.err = "nil"
    /\ ret.v.Patch = Zero64
    /\ len(ret.v.Prerelease) > 0
    /\ len(ret.v.Build) > 0

\* The index of the byte that ends the core: a '-' there starts the pre-release.
PreStart(str) == coreEnd(str, CoreStart(str))

HasPre(str) == PreStart(str) < Len(str) /\ At(str, PreStart(str)) = 45

\* The index of the first '+' from the end of the core on, or len(str).
PreEnd(str) ==
    LET k == IndexByteFrom(str, 43, PreStart(str)) IN
    IF k = -1 THEN Len(str) ELSE k

\* The dot-separated identifiers between the '-' that follows the core and the
\* first '+'; none without that '-'.
PreOf(str) ==
    IF HasPre(str)
    THEN Split(Slice(str, PreStart(str) + 1, PreEnd(str)), 46)
    ELSE <<>>

\* str with the identifiers of its pre-release replaced by parts.
WithPre(str, parts) ==
    Slice(str, 0, PreStart(str) + 1) \o Join(parts, 46)
        \o Slice(str, PreEnd(str), Len(str))

\* n is made of digits only, has more than one and starts with '0'.
LeadingZeroNumber(n) ==
    /\ Len(n) > 1
    /\ n[1] = 48
    /\ \A i \in 1..Len(n) : n[i] >= 48 /\ n[i] <= 57

\* n is made of identifier bytes, starts with '0' and holds a letter or hyphen.
ZeroLedText(n) ==
    /\ Len(n) > 1
    /\ n[1] = 48
    /\ \A i \in 1..Len(n) :
           \/ n[i] >= 48 /\ n[i] <= 57
           \/ n[i] >= 65 /\ n[i] <= 90
           \/ n[i] >= 97 /\ n[i] <= 122
           \/ n[i] = 45
    /\ \E i \in 1..Len(n) : n[i] < 48 \/ n[i] > 57

\* C16: Parse and ParseLax reject a core component and an all-digit pre-release
\* identifier of more than one digit that starts with '0'; a "0" is accepted
\* where a "1" is and stored as zero, and a pre-release identifier that starts
\* with '0' and holds a letter or hyphen is accepted where it is without the
\* '0', and kept as it is written.
C16_LeadingZeros ==
    calls \in {<<"Parse">>, <<"ParseLax">>} =>
        LET core == CoreOf(s)
            pre == PreOf(s)
        IN /\ (\E j \in 1..Len(core) : LeadingZeroNumber(core[j])) => ret.err # "nil"
           /\ (\E j \in 1..Len(pre) : LeadingZeroNumber(pre[j])) => ret.err # "nil"
           /\ \A j \in 1..Len(core) :
                  core[j] = <<48>> =>
                      /\ (ret.err = "nil") <=>
                             (SameParse(WithCore(s, [core EXCEPT ![j] = <<49>>])).err
                                  = "nil")
                      /\ ret.err = "nil" =>
                             <<ret.v.Major, ret.v.Minor, ret.v.Patch>>[j] = Zero64
           /\ \A j \in 1..Len(pre) :
                  /\ pre[j] = <<48>> =>
                         /\ (ret.err = "nil") <=>
                                (SameParse(WithPre(s, [pre EXCEPT ![j] = <<49>>])).err
                                     = "nil")
                         /\ ret.err = "nil" =>
                                ret.v.Prerelease.elems[j] = numericIdentifier(Zero64)
                  /\ ZeroLedText(pre[j]) =>
                         /\ (ret.err = "nil") <=>
                                (SameParse(WithPre(s, [pre EXCEPT ![j] = Tail(@)])).err
                                     = "nil")
                         /\ ret.err = "nil" =>
                                ret.v.Prerelease.elems[j] = alphanumericIdentifier(pre[j])

\* Parse accepted a pre-release of "0" and of an identifier that starts with
\* '0' and holds a letter.
C16_Witness ==
    /\ calls = <<"Parse">>
    /\ ret.err = "nil"
    /\ Len(PreOf(s)) = 2
    /\ PreOf(s)[1] = <<48>>
    /\ ZeroLedText(PreOf(s)[2])

\* A '+' follows the core or the pre-release.
HasBuild(str) == PreEnd(str) < Len(str)

\* The dot-separated identifiers after the first '+'.
BuildOf(str) ==
    IF HasBuild(str)
    THEN Split(Slice(str, PreEnd(str) + 1, Len(str)), 46)
    ELSE <<>>

\* n is empty or holds a byte outside [0-9A-Za-z-].
BadIdentifier(n) ==
    \/ n = <<>>
    \/ \E i \in 1..Len(n) :
           ~ \/ n[i] >= 48 /\ n[i] <= 57
             \/ n[i] >= 65 /\ n[i] <= 90
             \/ n[i] >= 97 /\ n[i] <= 122
             \/ n[i] = 45

\* C17: Parse and ParseLax fail when the pre-release after a '-' or the build
\* after a '+' is empty, when one of their identifiers is empty, and when one
\* holds a byte outside [0-9A-Za-z-], a second '+' included.
C17_BadIdentifiersRejected ==
    calls \in {<<"Parse">>, <<"ParseLax">>} =>
        /\ (\E j \in 1..Len(PreOf(s)) : BadIdentifier(PreOf(s)[j])) => ret.err # "nil"
        /\ (\E j \in 1..Len(BuildOf(s)) : BadIdentifier(BuildOf(s)[j])) =>
               ret.err # "nil"

\* Parse rejected a string for the empty last identifier of its build only.
C17_Witness ==
    /\ calls = <<"Parse">>
    /\ ret.err # "nil"
    /\ Len(BuildOf(s)) = 2
    /\ ~BadIdentifier(BuildOf(s)[1])
    /\ BuildOf(s)[2] = <<>>
    /\ Parse(Slice(s, 0, PreEnd(s))).err = "nil"

\* C18: for an input that holds a byte above 0x7F, Parse and ParseLax fail with
\* an invalid-version error and the validators return false.
C18_AsciiOnly ==
    (\E i \in 1..Len(s) : s[i] > 127) =>
        /\ calls \in {<<"Parse">>, <<"ParseLax">>} =>
               ret.err = "ErrInvalidVersion" /\ ret.v = Nil
        /\ calls \in {<<"IsValid">>, <<"IsValidPartial">>} => ret = Returns(FALSE)
        /\ calls \in {<<"IsValidPrefix">>, <<"IsValidPartialPrefix">>} =>
               ~ret.panic /\ ret.val[2] = FALSE

\* C19: for a string that starts with a digit, the parse of 'v' and the string
\* succeeds exactly when the parse of the string does, with a StrictEqual
\* Version; a string that is empty, is only "v", starts with another byte that
\* is not a digit, or has a byte that is not a digit after the 'v' is rejected.
C19_PrefixHandling ==
    calls \in {<<"Parse">>, <<"ParseLax">>} =>
        /\ (Len(s) > 0 /\ s[1] >= 48 /\ s[1] <= 57) =>
               /\ (SameParse(<<118>> \o s).err = "nil") <=> (ret.err = "nil")
               /\ ret.err = "nil" =>
                      CallStrictEqual(SameParse(<<118>> \o s).v, ret.v) = Returns(TRUE)
        /\ (\/ s = <<>>
            \/ s = <<118>>
            \/ Len(s) > 0 /\ s[1] # 118 /\ (s[1] < 48 \/ s[1] > 57)
            \/ Len(s) > 1 /\ s[1] = 118 /\ (s[2] < 48 \/ s[2] > 57)) =>
               ret.err # "nil"

\* Parse accepted a string that starts with a digit and has a pre-release and a
\* build.
C19_Witness ==
    /\ calls = <<"Parse">>
    /\ ret.err = "nil"
    /\ s[1] >= 48 /\ s[1] <= 57
    /\ len(ret.v.Prerelease) > 0
    /\ len(ret.v.Build) > 0

\* C20: MustParse panics if and only if Parse returns an error and otherwise
\* returns a Version StrictEqual to the one Parse returns; MustParseLax does so
\* with ParseLax.
C20_MustVariants ==
    /\ calls = <<"MustParse">> =>
           /\ ret.panic <=> (Parse(s).err # "nil")
           /\ ~ret.panic => CallStrictEqual(ret.val, Parse(s).v) = Returns(TRUE)
    /\ calls = <<"MustParseLax">> =>
           /\ ret.panic <=> (ParseLax(s).err # "nil")
           /\ ~ret.panic => CallStrictEqual(ret.val, ParseLax(s).v) = Returns(TRUE)

\* MustParse panicked on a string that MustParseLax returns a Version for.
C20_Witness ==
    /\ calls = <<"MustParse">>
    /\ ret.panic
    /\ ~MustParseLax(s).panic

\* t is the decimal writing of u without leading zeros.
DecimalOf(t, u) ==
    /\ Len(t) > 0
    /\ \A i \in 1..Len(t) : t[i] >= 48 /\ t[i] <= 57
    /\ Len(t) > 1 => t[1] # 48
    /\ ParseUint(t) = [u |-> u, err |-> "nil"]

\* core is major '.' minor '.' patch of x in decimal.
CoreRendered(core, x) ==
    LET parts == Split(core, 46) IN
    /\ Len(parts) = 3
    /\ DecimalOf(parts[1], x.Major)
    /\ DecimalOf(parts[2], x.Minor)
    /\ DecimalOf(parts[3], x.Patch)

\* pre is the identifiers of p joined by dots: a number in decimal, any other as
\* it is.
PreRendered(pre, p) ==
    LET parts == Split(pre, 46) IN
    /\ Len(parts) = len(p)
    /\ \A i \in 1..len(p) :
           IF p.elems[i].type = "numericIdentifier"
           THEN DecimalOf(parts[i], p.elems[i].v)
           ELSE parts[i] = p.elems[i].v

\* The three renderings of x are built as C21 states.
Rendered(x) ==
    /\ CoreRendered(CoreString(x), x)
    /\ IF len(x.Prerelease) > 0
       THEN /\ Slice(ComparableString(x), 0, Len(CoreString(x)) + 1)
                   = CoreString(x) \o <<45>>
            /\ PreRendered(Slice(ComparableString(x), Len(CoreString(x)) + 1,
                                 Len(ComparableString(x))), x.Prerelease)
       ELSE ComparableString(x) = CoreString(x)
    /\ IF len(x.Build) > 0
       THEN String(x) = ComparableString(x) \o <<43>> \o Join(x.Build.elems, 46)
       ELSE String(x) = ComparableString(x)

\* C21: CoreString() is major '.' minor '.' patch in decimal without leading
\* zeros, ComparableString() adds '-' and the pre-release identifiers joined by
\* '.' exactly when there are any, and String() adds '+' and the build
\* identifiers joined by '.' exactly when there are any; for the parsed Version
\* of the state and for the Versions built from parts.
C21_Rendering ==
    /\ (Len(calls) = 2 /\ calls[2] = "CoreString") =>
           ret = CoreString(v) /\ Rendered(v)
    /\ (Len(calls) = 2 /\ calls[2] = "ComparableString") =>
           ret = ComparableString(v) /\ Rendered(v)
    /\ (Len(calls) = 2 /\ calls[2] = "String") =>
           ret = String(v) /\ Rendered(v)
    /\ Len(calls) = 2 => \A b \in BuiltVersions : Rendered(b)

\* String() was called on a Version with a number of more than 14 digits and a
\* build.
C21_Witness ==
    /\ calls = <<"Parse", "String">>
    /\ v.Major[1] > 0
    /\ len(v.Build) > 0

(***************************************************************************)
(* Sorting a Versions slice (slice.go)                                     *)
(*                                                                         *)
(* s is the slice of strings that were parsed with ParseLax, v the         *)
(* Versions slice, w the indexes i and j of the sort, calls is <<"Sort">>  *)
(* from the call of sort.Sort on, ret is what it returned.                 *)
(* sort.Sort sorts a slice of at most 12 elements by insertion, with       *)
(* data.Less(j, j-1) and data.Swap(j, j-1).                                *)
(***************************************************************************)

\* The most elements of a sorted slice, the slice of the example apart.
MaxSortLen == 3

\* The package function Compare(v, w): v.Compare(w).
Compare_func(x, y) == Compare(x, y)

\* Versions.Len, Versions.Less and Versions.Swap with zero-based indexes.
Versions_Len(x) == Len(x)

\* Faulty variant of Versions.Less: the comparison is turned around (C22 fails
\* with it).
Versions_Less_reversed(x, i, j) == Compare_func(x[i + 1], x[j + 1]) > 0

Versions_Less(x, i, j) == Compare_func(x[i + 1], x[j + 1]) < 0

Versions_Swap(x, i, j) == [x EXCEPT ![i + 1] = x[j + 1], ![j + 1] = x[i + 1]]

\* The strings of TestVersionsSort's first case.
SortExample ==
    <<Str(<<"1", ".", "2", ".", "3">>), Str(<<"1", ".", "0">>),
      Str(<<"1", ".", "3">>), Str(<<"2">>), Str(<<"0", ".", "4", ".", "2">>)>>

SortExampleWant ==
    <<Str(<<"0", ".", "4", ".", "2">>), Str(<<"1", ".", "0", ".", "0">>),
      Str(<<"1", ".", "2", ".", "3">>), Str(<<"1", ".", "3", ".", "0">>),
      Str(<<"2", ".", "0", ".", "0">>)>>

\* Strings ParseLax accepts: some compare as equal, some differ in the
\* pre-release only.
SortStrings ==
    {Str(<<"1", ".", "2", ".", "3">>), Str(<<"1", ".", "0">>), Str(<<"1">>),
     Str(<<"2">>), Str(<<"1", "0">>), Str(<<"1", "-", "a">>),
     Str(<<"1", "-", "a", ".", "1">>), Str(<<"1", "+", "b">>)}

SortInputs == SeqsOf(SortStrings, 0, MaxSortLen) \cup {SortExample}

InitSort ==
    /\ s \in SortInputs
    /\ v = [k \in 1..Len(s) |-> ParseLax(s[k]).v]
    /\ w = [i |-> 0, j |-> 0]
    /\ calls = <<>>
    /\ ret = Nil

\* sort.Sort(versions): nothing to do for fewer than two elements, else the
\* insertion sort starts with i = 1, j = i.
SortBegin ==
    /\ calls = <<>>
    /\ calls' = <<"Sort">>
    /\ IF Versions_Len(v) <= 1
       THEN ret' = Returns(Nil) /\ w' = w
       ELSE ret' = ret /\ w' = [i |-> 1, j |-> 1]
    /\ UNCHANGED <<s, v>>

\* The inner loop's body: j > 0 and Less(j, j-1), so Swap(j, j-1) and j--.
SortSwap ==
    /\ calls = <<"Sort">> /\ ret = Nil
    /\ w.j > 0 /\ Versions_Less(v, w.j, w.j - 1)
    /\ v' = Versions_Swap(v, w.j, w.j - 1)
    /\ w' = [w EXCEPT !.j = w.j - 1]
    /\ UNCHANGED <<s, calls, ret>>

\* The inner loop ends and the outer loop goes on: i++, j = i.
SortNext ==
    /\ calls = <<"Sort">> /\ ret = Nil
    /\ ~(w.j > 0 /\ Versions_Less(v, w.j, w.j - 1))
    /\ w.i + 1 < Versions_Len(v)
    /\ w' = [i |-> w.i + 1, j |-> w.i + 1]
    /\ UNCHANGED <<s, v, calls, ret>>

\* The inner loop ends and so does the outer loop: sort.Sort returns.
SortReturn ==
    /\ calls = <<"Sort">> /\ ret = Nil
    /\ ~(w.j > 0 /\ Versions_Less(v, w.j, w.j - 1))
    /\ w.i + 1 >= Versions_Len(v)
    /\ ret' = Returns(Nil)
    /\ UNCHANGED <<s, v, w, calls>>

NextSort ==
    \/ SortBegin
    \/ SortSwap
    \/ SortNext
    \/ SortReturn

SpecSort == InitSort /\ [][NextSort]_vars

\* The number of indexes of x that hold e.
CountOf(x, e) == Cardinality({k \in 1..Len(x) : x[k] = e})

\* C22: when sort.Sort has returned, the slice is a permutation of the
\* lax-parsed input and Compare(x[i], x[i+1]) <= 0 for every adjacent pair;
\* the lax parses of ["1.2.3","1.0","1.3","2","0.4.2"] then render as
\* ["0.4.2","1.0.0","1.2.3","1.3.0","2.0.0"].
C22_Sorting ==
    (calls = <<"Sort">> /\ ret = Returns(Nil)) =>
        /\ Len(v) = Len(s)
        /\ \A k \in 1..Len(s) :
               CountOf(v, ParseLax(s[k]).v)
                   = CountOf([n \in 1..Len(s) |-> ParseLax(s[n]).v], ParseLax(s[k]).v)
        /\ \A k \in 1..(Len(v) - 1) : Compare_func(v[k], v[k + 1]) <= 0
        /\ s = SortExample => [k \in 1..Len(v) |-> String(v[k])] = SortExampleWant

\* sort.Sort has returned for the slice of the example.
C22_Witness ==
    /\ calls = <<"Sort">>
    /\ ret = Returns(Nil)
    /\ s = SortExample
    /\ v # [k \in 1..Len(s) |-> ParseLax(s[k]).v]

\* C23: for Versions a, b and c that Parse or ParseLax returned, Compare(a, b)
\* <= 0 and Compare(b, c) <= 0 give Compare(a, c) <= 0, and Compare(a, b) = 0
\* and Compare(b, c) = 0 give Compare(a, c) = 0; Versions.Less is then a strict
\* weak ordering: irreflexive, transitive, and with a transitive "neither is
\* less".
C23_CompareTransitive ==
    (calls = <<"Compare">> /\ v \in ParsedVersions /\ w \in ParsedVersions) =>
        \A c \in ParsedVersions :
            /\ (ret.val <= 0 /\ Compare_func(w, c) <= 0) => Compare_func(v, c) <= 0
            /\ (ret.val = 0 /\ Compare_func(w, c) = 0) => Compare_func(v, c) = 0
            /\ ~Versions_Less(<<v>>, 0, 0)
            /\ (Versions_Less(<<v, w>>, 0, 1) /\ Versions_Less(<<w, c>>, 0, 1))
                   => Versions_Less(<<v, c>>, 0, 1)
            /\ (~Versions_Less(<<v, w>>, 0, 1) /\ ~Versions_Less(<<w, c>>, 0, 1))
                   => ~Versions_Less(<<v, c>>, 0, 1)

\* A number, an upper-case and a lower-case identifier in a row: 1.2.1-2 is
\* less than 1.2.1-B, which is less than 1.2.1-a.
C23_Witness ==
    /\ calls = <<"Compare">>
    /\ v = Parse(Str(<<"1", ".", "2", ".", "1", "-", "2">>)).v
    /\ w = Parse(Str(<<"1", ".", "2", ".", "1", "-", "B">>)).v
    /\ Parse(Str(<<"1", ".", "2", ".", "1", "-", "a">>)).v \in ParsedVersions
    /\ ret.val = -1
    /\ Compare_func(w, Parse(Str(<<"1", ".", "2", ".", "1", "-", "a">>)).v) = -1

\* C24: each version of the SemVer precedence chain 1.0.0-alpha, -alpha.1,
\* -alpha.beta, -beta, -beta.2, -beta.11, -rc.1, 1.0.0 compares as -1 with the
\* next one after parsing, and 1.0.0+build1 compares as 0 with 1.0.0+build2.
C24_PrecedenceChain ==
    calls = <<"Compare">> =>
        /\ \A k \in 1..(Len(PrecedenceChain) - 1) :
               (/\ v = Parse(PrecedenceChain[k]).v
                /\ w = Parse(PrecedenceChain[k + 1]).v) => ret = Returns(-1)
        /\ (v = Parse(Build1).v /\ w = Parse(Build2).v) => ret = Returns(0)

\* 1.0.0-alpha.beta has been compared with 1.0.0-beta.
C24_Witness ==
    /\ calls = <<"Compare">>
    /\ v = Parse(PrecedenceChain[3]).v
    /\ w = Parse(PrecedenceChain[4]).v
    /\ len(v.Prerelease) = 2
    /\ ret = Returns(-1)

\* str has an empty core component, an empty pre-release identifier, or an
\* empty build identifier (an empty pre-release or build included).
HasEmptyPart(str) ==
    \/ \E j \in 1..Len(CoreOf(str)) : CoreOf(str)[j] = <<>>
    \/ \E j \in 1..Len(PreOf(str)) : PreOf(str)[j] = <<>>
    \/ \E j \in 1..Len(BuildOf(str)) : BuildOf(str)[j] = <<>>

\* C25: IsValid and the lax validator return false for every string that has
\* an empty core component, an empty pre-release identifier, or an empty build
\* or build identifier.
C25_EmptyPartsRejected ==
    (calls \in {<<"IsValid">>, <<"IsValidPartial">>} /\ HasEmptyPart(s)) =>
        ret = Returns(FALSE)

\* C26: for every input string, IsValid, IsValidPrefix and the lax validators
\* return a boolean and never fault, a pre-release that ends in '.' included.
C26_ValidatorsTotal ==
    /\ calls \in {<<"IsValid">>, <<"IsValidPartial">>} =>
           ~ret.panic /\ ret.val \in BOOLEAN
    /\ calls \in {<<"IsValidPrefix">>, <<"IsValidPartialPrefix">>} =>
           ~ret.panic /\ ret.val[2] \in BOOLEAN
    /\ (/\ calls \in {<<"IsValid">>, <<"IsValidPartial">>}
        /\ HasPre(s)
        /\ PreOf(s)[Len(PreOf(s))] = <<>>
        /\ ~HasBuild(s)) => ret = Returns(FALSE)

\* str is q followed by a string that starts with a digit.
StartsWith(str, q) ==
    /\ Len(str) > Len(q)
    /\ Slice(str, 0, Len(q)) = q
    /\ isDigit(At(str, Len(q)))

\* str is q followed by a string that starts with a digit and that IsValid
\* accepts.
PrefixedValid(str, q) ==
    /\ StartsWith(str, q)
    /\ Validated(IsValid(Slice(str, Len(q), Len(str)))) = Returns(TRUE)

\* A supplied prefix in front of a valid string is accepted, whatever bytes the
\* prefix holds.
SuppliedPrefixAccepted ==
    calls \in {<<"IsValidPrefix">>, <<"IsValidPartialPrefix">>} =>
        \A p \in ret.val[1] :
            (p # <<>> /\ PrefixedValid(s, p)) => ret.val[2] = TRUE

\* 'v' in front of a valid string is accepted whatever prefixes are supplied.
VStaysValid ==
    calls \in {<<"IsValidPrefix">>, <<"IsValidPartialPrefix">>} =>
        (PrefixedValid(s, <<118>>) => ret.val[2] = TRUE)

\* A string that starts with something other than a digit, 'v' and a digit, or
\* a supplied prefix and a digit, is rejected.
OtherPrefixRejected ==
    calls \in {<<"IsValidPrefix">>, <<"IsValidPartialPrefix">>} =>
        ((\A q \in ret.val[1] \cup {<<>>, <<118>>} : ~StartsWith(s, q)) =>
             ~ret.panic /\ ret.val[2] = FALSE)

\* C27: for every non-empty prefix p passed to IsValidPrefix or
\* IsValidPartialPrefix and every string t that IsValid accepts and that starts
\* with a digit, the validator accepts p followed by t, also when p holds a
\* digit; 'v' followed by t stays valid when other prefixes are passed; a
\* string whose prefix is neither 'v' nor one of those passed is rejected.
C27_SuppliedPrefixes ==
    /\ SuppliedPrefixAccepted
    /\ VStaysValid
    /\ OtherPrefixRejected

\* C28: for every string Parse accepts, ParseLax succeeds too and returns a
\* Version StrictEqual to the one Parse returns; a string that ParseLax accepts
\* and Parse rejects has one or two core components.
C28_LaxExtendsStrict ==
    /\ (calls \in {<<"Parse">>, <<"ParseLax">>} /\ Parse(s).err = "nil") =>
           /\ ParseLax(s).err = "nil"
           /\ ret.err = "nil"
           /\ CallStrictEqual(ParseLax(s).v, Parse(s).v) = Returns(TRUE)
           /\ CallStrictEqual(Parse(s).v, ParseLax(s).v) = Returns(TRUE)
    /\ (calls = <<"ParseLax">> /\ ret.err = "nil" /\ Parse(s).err # "nil") =>
           /\ Len(CoreOf(s)) \in {1, 2}
           /\ Parse(Padded(s)).err = "nil"

\* ParseLax accepted a string of one core component and a build, which Parse
\* rejects.
C28_Witness ==
    /\ calls = <<"ParseLax">>
    /\ ret.err = "nil"
    /\ Parse(s).err # "nil"
    /\ Len(CoreOf(s)) = 1
    /\ len(ret.v.Build) > 0

\* id is what the parser makes of the pre-release run n: a number holding n's
\* decimal value when n is digits only, else the text n itself, which then
\* holds a letter or a hyphen.
IdentifierOf(id, n) ==
    IF \A i \in 1..Len(n) : n[i] >= 48 /\ n[i] <= 57
    THEN /\ id.type = "numericIdentifier"
         /\ ParseUint(n) = [u |-> id.v, err |-> "nil"]
         /\ FormatUint(id.v) = n
    ELSE /\ id.type = "alphanumericIdentifier"
         /\ id.v = n
         /\ \E i \in 1..Len(n) : n[i] = 45 \/ n[i] >= 65

\* C29: in every Version Parse or ParseLax returns the pre-release is nil or
\* has at least one identifier; each pre-release identifier is numeric, with
\* the decimal value of its run, exactly when the run is digits only, and else
\* alphanumeric with the run as it is and a letter or hyphen in it; every
\* pre-release and build identifier is non-empty and made of [0-9A-Za-z-].
C29_ParserOutput ==
    (calls \in {<<"Parse">>, <<"ParseLax">>} /\ ret.err = "nil") =>
        /\ ret.v.Prerelease.isNil \/ len(ret.v.Prerelease) > 0
        /\ ret.v.Prerelease.isNil <=> ~HasPre(s)
        /\ len(ret.v.Prerelease) = Len(PreOf(s))
        /\ \A j \in 1..len(ret.v.Prerelease) :
               /\ IdentifierOf(ret.v.Prerelease.elems[j], PreOf(s)[j])
               /\ ~BadIdentifier(Identifier_String(ret.v.Prerelease.elems[j]))
        /\ len(ret.v.Build) = Len(BuildOf(s))
        /\ \A j \in 1..len(ret.v.Build) :
               /\ ret.v.Build.elems[j] = BuildOf(s)[j]
               /\ ~BadIdentifier(ret.v.Build.elems[j])

\* ParseLax returned a pre-release of a number and a text that starts with a
\* digit.
C29_Witness ==
    /\ calls = <<"ParseLax">>
    /\ ret.err = "nil"
    /\ len(ret.v.Prerelease) = 2
    /\ ret.v.Prerelease.elems[1].type = "numericIdentifier"
    /\ ret.v.Prerelease.elems[2].type = "alphanumericIdentifier"
    /\ ret.v.Prerelease.elems[2].v[1] = 48

\* C30: for Version pointers a and b, each possibly nil, a.Equal(b) and
\* b.Equal(a) return the same boolean, and so do a.StrictEqual(b) and
\* b.StrictEqual(a); no combination faults; two nil Versions are equal and a
\* nil Version is not equal to a non-nil one, whichever is the receiver.
C30_EqualityOnNil ==
    /\ calls = <<"Equal">> =>
           /\ ~ret.panic
           /\ CallEqual(w, v) = ret
           /\ (v = Nil /\ w = Nil) => ret.val = TRUE
           /\ (v = Nil) # (w = Nil) => ret.val = FALSE
    /\ calls = <<"StrictEqual">> =>
           /\ ~ret.panic
           /\ CallStrictEqual(w, v) = ret
           /\ (v = Nil /\ w = Nil) => ret.val = TRUE
           /\ (v = Nil) # (w = Nil) => ret.val = FALSE

====
